---- MODULE Spec2Model ----
(***************************************************************************)
(* Model of BOM.from_folder, BOM.flat and BOM.quantities of src/BOM.py,    *)
(* together with the anytree NodeMixin parent/children setters that the    *)
(* assignments `sub_bom.parent = bom` and `bom.children = children` run.   *)
(***************************************************************************)
EXTENDS Integers, Sequences, FiniteSets, TLC

\* ------------------------------------------------------------------ bounds
\* rows iterated over all assembly tables of one build
MaxRows == 4
\* rows of the master parts table
MaxMasterRows == 2

\* ------------------------------------------------------------------ inputs
\* names an assembly file may have, PNs the master table may list, and one
\* PN that is neither
Names == {"TOP", "SUB", "A"}
PartPNs == {"P1", "P2"}
PNs == Names \cup PartPNs \cup {"P9"}

RECURSIVE SeqsUpTo(_, _)
SeqsUpTo(S, n) ==
  IF n = 0 THEN {<<>>}
  ELSE LET shorter == SeqsUpTo(S, n - 1)
       IN  shorter \cup {Append(s, x) : s \in shorter, x \in S}

MasterTables == SeqsUpTo(PartPNs, MaxMasterRows)

\* ------------------------------------------------------------------- nodes
\* Python objects, told apart by identity: a BOM per assembly file, an Item
\* per master row (n is the row index), an ItemLink per creation (n is a
\* serial number).
None == [kind |-> "None", name |-> "", n |-> 0]
BOMNode(a) == [kind |-> "BOM", name |-> a, n |-> 0]
ItemNode(pn, i) == [kind |-> "Item", name |-> pn, n |-> i]
LinkNode(k) == [kind |-> "ItemLink", name |-> "", n |-> k]

VARIABLES
  pc,         \* "start", "loop", "rows", "returned", "failed"
  error,      \* the exception that ended the build, or "none"
  files,      \* keys of the dict `assemblies`
  master,     \* PN column of the master parts table
  parts,      \* the dict `parts`: PN -> Item
  raw_data,   \* per assembly, the rows (PN column) its loop has iterated
  done,       \* assemblies whose loop body has completed
  cur,        \* `name` of the assembly being processed, "" between loops
  children,   \* the local list `children`
  tree,       \* anytree state: [parent, children, err]
  item_type,  \* the item_type attribute of BOMs and Items
  target,     \* target of the k-th ItemLink
  stdout,     \* PNs named by the print of line 225
  root,       \* the returned BOM, None before
  qnode,      \* node last queried, None before
  qflat,      \* its .flat
  qquant      \* its .quantities

vars == <<pc, error, files, master, parts, raw_data, done, cur, children,
          tree, item_type, target, stdout, root, qnode, qflat, qquant>>

Range(s) == {s[i] : i \in DOMAIN s}

\* ----------------------------------------------------------------- anytree
\* NodeMixin.iter_path_reverse without the node itself; the fuel is the
\* number of nodes, enough for any chain without a repetition.
RECURSIVE AncestorsUpTo(_, _, _)
AncestorsUpTo(par, node, fuel) ==
  IF fuel = 0 \/ par[node] = None THEN {}
  ELSE {par[node]} \cup AncestorsUpTo(par, par[node], fuel - 1)

Ancestors(par, node) == AncestorsUpTo(par, node, Cardinality(DOMAIN par))

\* a loop check that never raises
CheckLoop_NoCheck(par, node, value) == FALSE

\* NodeMixin.__check_loop: TRUE when it raises LoopError
CheckLoop(par, node, value) ==
  /\ value # None
  /\ (node = value \/ node \in Ancestors(par, value))

\* NodeMixin.__detach
Detach(t, node) ==
  LET p == t.parent[node]
  IN  IF p = None THEN t
      ELSE [t EXCEPT !.parent[node] = None,
                     !.children[p] = SelectSeq(@, LAMBDA c : c # node)]

\* NodeMixin.__attach
Attach(t, node, value) ==
  IF value = None THEN t
  ELSE [t EXCEPT !.parent[node] = value,
                 !.children[value] = Append(@, node)]

\* NodeMixin.parent setter; a failure is recorded in t.err and later
\* assignments of the same statement are not run
SetParent(t, node, value) ==
  IF t.err # "none" \/ t.parent[node] = value THEN t
  ELSE IF CheckLoop(t.parent, node, value) THEN [t EXCEPT !.err = "LoopError"]
  ELSE Attach(Detach(t, node), node, value)

\* NodeMixin.__check_children: TRUE when it raises TreeError (a node listed
\* twice)
CheckChildren(chs) ==
  \E i, j \in DOMAIN chs : i < j /\ chs[i] = chs[j]

RECURSIVE SetParentAll(_, _, _)
SetParentAll(t, chs, value) ==
  IF chs = <<>> THEN t
  ELSE SetParentAll(SetParent(t, Head(chs), value), Tail(chs), value)

\* NodeMixin.children deleter
DelChildren(t, node) == SetParentAll(t, t.children[node], None)

\* NodeMixin.children setter
SetChildren(t, node, chs) ==
  IF CheckChildren(chs) THEN [t EXCEPT !.err = "TreeError"]
  ELSE LET old == t.children[node]
           new == SetParentAll(DelChildren(t, node), chs, node)
       IN  IF new.err = "none" THEN new
           ELSE [SetParentAll(DelChildren([new EXCEPT !.err = "none"], node),
                              old, node) EXCEPT !.err = new.err]

\* ------------------------------------------------------------------ BOM.py
\* BOM.__len__ through bool(): the truth value of `part_.parent`
Truthy(t, p) == p # None /\ Len(t.children[p]) > 0

\* the dict comprehension of line 210: a later row replaces an earlier one
PartsDict(m) ==
  [pn \in Range(m) |->
     ItemNode(pn, CHOOSE i \in DOMAIN m :
                    m[i] = pn /\ \A j \in DOMAIN m : m[j] = pn => j <= i)]

\* parts[row.PN]: a dict raises KeyError for a missing key
Lookup(d, pn) ==
  IF pn \in DOMAIN d THEN [exc |-> "none", val |-> d[pn]]
  ELSE [exc |-> "KeyError", val |-> None]

\* attribute lookup on a node: SymlinkNodeMixin.__getattr__ forwards to the
\* target
ItemType(it, tg, node) ==
  IF node.kind = "ItemLink" THEN it[tg[node.n]] ELSE it[node]

PN(tg, node) ==
  IF node.kind = "ItemLink" THEN tg[node.n].name ELSE node.name

TotalRows == LET RECURSIVE Sum(_)
                 Sum(S) == IF S = {} THEN 0
                           ELSE LET a == CHOOSE x \in S : TRUE
                                IN  Len(raw_data[a]) + Sum(S \ {a})
             IN  Sum(files)

Init ==
  /\ pc = "start"
  /\ error = "none"
  /\ files = {}
  /\ master = <<>>
  /\ parts = <<>>
  /\ raw_data = <<>>
  /\ done = {}
  /\ cur = ""
  /\ children = <<>>
  /\ tree = [parent |-> <<>>, children |-> <<>>, err |-> "none"]
  /\ item_type = <<>>
  /\ target = <<>>
  /\ stdout = {}
  /\ root = None
  /\ qnode = None
  /\ qflat = <<>>
  /\ qquant = <<>>

\* lines 205-210: the assembly BOMs and the parts dict
Load ==
  /\ pc = "start"
  /\ \E fs \in SUBSET Names, m \in MasterTables :
       LET d == PartsDict(m)
           nodes == {BOMNode(a) : a \in fs} \cup Range(d)
       IN  /\ files' = fs
           /\ master' = m
           /\ parts' = d
           /\ raw_data' = [a \in fs |-> <<>>]
           /\ tree' = [parent |-> [x \in nodes |-> None],
                       children |-> [x \in nodes |-> <<>>],
                       err |-> "none"]
           /\ item_type' = [x \in nodes |->
                              IF x.kind = "Item" THEN "part" ELSE "None"]
  /\ pc' = "loop"
  /\ UNCHANGED <<error, done, cur, children, target, stdout, root, qnode,
                 qflat, qquant>>

\* lines 213-214: the next assembly of the dict, in the order the directory
\* listing gave
NextBOM ==
  /\ pc = "loop"
  /\ \E a \in files \ done :
       /\ cur' = a
       /\ children' = <<>>
  /\ pc' = "rows"
  /\ UNCHANGED <<error, files, master, parts, raw_data, done, tree,
                 item_type, target, stdout, root, qnode, qflat, qquant>>

\* the sub-assembly left untagged
TagAssembly_Skipped(it, sub) == it

\* line 219
TagAssembly(it, sub) == [it EXCEPT ![sub] = "assembly"]

\* lines 215-220: a row naming an assembly
RowAssembly ==
  /\ pc = "rows"
  /\ TotalRows < MaxRows
  /\ \E pn \in files :
       LET bom == BOMNode(cur)
           sub_bom == BOMNode(pn)
           t == SetParent(tree, sub_bom, bom)
       IN  /\ raw_data' = [raw_data EXCEPT ![cur] = Append(@, pn)]
           /\ IF t.err # "none"
              THEN /\ pc' = "failed"
                   /\ error' = t.err
                   /\ UNCHANGED <<tree, item_type, children>>
              ELSE /\ tree' = t
                   /\ item_type' = TagAssembly(item_type, sub_bom)
                   /\ children' = Append(children, sub_bom)
                   /\ UNCHANGED <<pc, error>>
  /\ UNCHANGED <<files, master, parts, done, cur, target, stdout, root,
                 qnode, qflat, qquant>>

\* lines 215-216, 221-231: a row naming no assembly
RowPart ==
  /\ pc = "rows"
  /\ TotalRows < MaxRows
  /\ \E pn \in PNs \ files :
       LET r == Lookup(parts, pn)
           part_ == r.val
           sym_part == LinkNode(Len(target) + 1)
       IN  /\ raw_data' = [raw_data EXCEPT ![cur] = Append(@, pn)]
           /\ IF r.exc = "IndexError"
              THEN /\ stdout' = stdout \cup {pn}
                   /\ UNCHANGED <<pc, error, tree, children, target>>
              ELSE IF r.exc # "none"
              THEN /\ pc' = "failed"
                   /\ error' = r.exc
                   /\ UNCHANGED <<stdout, tree, children, target>>
              ELSE IF Truthy(tree, tree.parent[part_])
              THEN /\ target' = Append(target, part_)
                   /\ tree' = [tree EXCEPT
                        !.parent = @ @@ (sym_part :> None),
                        !.children = @ @@ (sym_part :> <<>>)]
                   /\ children' = Append(children, sym_part)
                   /\ UNCHANGED <<pc, error, stdout>>
              ELSE /\ children' = Append(children, part_)
                   /\ UNCHANGED <<pc, error, stdout, tree, target>>
  /\ UNCHANGED <<files, master, parts, done, cur, item_type, root, qnode,
                 qflat, qquant>>

\* line 232, then back to the head of the loop of line 213
EndRows ==
  /\ pc = "rows"
  /\ LET t == SetChildren(tree, BOMNode(cur), children)
     IN  IF t.err # "none"
         THEN /\ pc' = "failed"
              /\ error' = t.err
              /\ tree' = [t EXCEPT !.err = "none"]
              /\ UNCHANGED <<done, cur>>
         ELSE /\ tree' = t
              /\ done' = done \cup {cur}
              /\ cur' = ""
              /\ pc' = "loop"
              /\ UNCHANGED error
  /\ UNCHANGED <<files, master, parts, raw_data, children, item_type,
                 target, stdout, root, qnode, qflat, qquant>>

\* every BOM taken for a root, whatever its parent
Roots_All(t, fs) == fs

\* line 235: the BOMs whose is_root holds
Roots(t, fs) == {a \in fs : t.parent[BOMNode(a)] = None}

\* lines 234-242
FindRoot ==
  /\ pc = "loop"
  /\ done = files
  /\ LET rs == Roots(tree, files)
     IN  IF Cardinality(rs) > 1
         THEN /\ pc' = "failed"
              /\ error' = "Singular root BOM not found."
              /\ UNCHANGED root
         ELSE IF Cardinality(rs) = 0
         THEN /\ pc' = "failed"
              /\ error' = "No root BOM found."
              /\ UNCHANGED root
         ELSE /\ root' = BOMNode(CHOOSE a \in rs : TRUE)
              /\ pc' = "returned"
              /\ UNCHANGED error
  /\ UNCHANGED <<files, master, parts, raw_data, done, cur, children, tree,
                 item_type, target, stdout, qnode, qflat, qquant>>

\* lines 158-160
Parts(t, it, tg, node) ==
  SelectSeq(t.children[node], LAMBDA c : ItemType(it, tg, c) = "part")

\* lines 162-164
Assemblies(t, it, tg, node) ==
  SelectSeq(t.children[node], LAMBDA c : ItemType(it, tg, c) = "assembly")

\* lines 166-175; the fuel bounds the depth by the number of nodes
RECURSIVE FlatUpTo(_, _, _, _, _)
FlatUpTo(t, it, tg, node, fuel) ==
  LET RECURSIVE Expand(_)
      Expand(as) ==
        IF as = <<>> \/ fuel = 0 THEN <<>>
        ELSE FlatUpTo(t, it, tg, Head(as), fuel - 1) \o Expand(Tail(as))
  IN  Parts(t, it, tg, node) \o Expand(Assemblies(t, it, tg, node))

Flat(t, it, tg, node) ==
  FlatUpTo(t, it, tg, node, Cardinality(DOMAIN t.parent))

\* Counter(seq): objects hash by identity, so the keys are nodes
Counter(s) ==
  [x \in Range(s) |-> Cardinality({i \in DOMAIN s : s[i] = x})]

\* lines 177-179
Quantities(t, it, tg, node) == Counter(Flat(t, it, tg, node))

\* the caller reads .flat and .quantities of a node of the returned tree
Query ==
  /\ pc = "returned"
  /\ \E a \in files :
       /\ qnode' = BOMNode(a)
       /\ qflat' = Flat(tree, item_type, target, BOMNode(a))
       /\ qquant' = Quantities(tree, item_type, target, BOMNode(a))
  /\ UNCHANGED <<pc, error, files, master, parts, raw_data, done, cur,
                 children, tree, item_type, target, stdout, root>>

Next ==
  \/ Load
  \/ NextBOM
  \/ RowAssembly
  \/ RowPart
  \/ EndRows
  \/ FindRoot
  \/ Query

Spec == Init /\ [][Next]_vars

\* ------------------------------------------------------- claim vocabulary
Count(s, x) == Cardinality({i \in DOMAIN s : s[i] = x})

\* rows of all tables iterated so far that name pn
RowCount(pn) ==
  LET RECURSIVE Sum(_)
      Sum(S) == IF S = {} THEN 0
                ELSE LET a == CHOOSE x \in S : TRUE
                     IN  Count(raw_data[a], pn) + Sum(S \ {a})
  IN  Sum(files)

\* assemblies with a row naming a
Referrers(a) == {x \in files : a \in Range(raw_data[x])}

Parentless == {a \in files : tree.parent[BOMNode(a)] = None}

PNSeq(s) == [i \in DOMAIN s |-> PN(target, s[i])]

IsPartNode(x) == x.kind \in {"Item", "ItemLink"}

KidsOf(a) == tree.children[BOMNode(a)]

\* C1: a row whose PN is neither an assembly name nor a key of the part
\* catalog does not end the build: the row is skipped and the PN is reported.
C1_UnresolvedRowNonFatal ==
  \A a \in files : \A i \in DOMAIN raw_data[a] :
    LET pn == raw_data[a][i]
    IN  (pn \notin files /\ pn \notin DOMAIN parts)
          => (pn \in stdout /\ error # "KeyError")

\* C2: once rows of two different assemblies name the same sub-assembly the
\* build has failed; the sub-assembly is not moved to the second parent.
C2_AmbiguousParentFails ==
  \A a \in files : Cardinality(Referrers(a)) >= 2 => pc = "failed"

\* C3: a part named by N >= 2 rows, in one assembly or several, never makes
\* the build fail, and flattening the returned root gives N occurrences of
\* it: the Item once and N-1 ItemLinks that target that Item.
C3_MultiUsePart ==
  /\ (pc = "failed" /\ error = "TreeError")
       => ~ \E i, j \in DOMAIN children :
              i < j /\ children[i] = children[j] /\ children[i].kind = "Item"
  /\ pc = "returned"
       => \A pn \in DOMAIN parts :
            LET f == Flat(tree, item_type, target, root)
                occ == {i \in DOMAIN f : PN(target, f[i]) = pn}
            IN  RowCount(pn) >= 2
                  => /\ Cardinality(occ) = RowCount(pn)
                     /\ Cardinality({i \in occ : f[i] = parts[pn]}) = 1
                     /\ \A i \in occ :
                          f[i] # parts[pn]
                            => /\ f[i].kind = "ItemLink"
                               /\ target[f[i].n] = parts[pn]

\* C4: the quantity report of a node has one entry per part identifier, and
\* its count is the number of occurrences of that identifier in the node's
\* flattened sequence.
C4_QuantitiesPerIdentifier ==
  qnode # None
    => /\ \A k1, k2 \in DOMAIN qquant :
            PN(target, k1) = PN(target, k2) => k1 = k2
       /\ \A k \in DOMAIN qquant :
            qquant[k] = Count(PNSeq(qflat), PN(target, k))

\* C5: the build returns exactly when, all assemblies resolved, one assembly
\* has no parent, and it returns that assembly; otherwise it fails and
\* returns nothing.
C5_UniqueRoot ==
  /\ pc = "returned"
       => /\ done = files
          /\ root.kind = "BOM"
          /\ Parentless = {root.name}
  /\ (pc = "failed" /\ done = files)
       => /\ root = None
          /\ Cardinality(Parentless) # 1
          /\ error \in {"Singular root BOM not found.", "No root BOM found."}
          /\ (error = "No root BOM found." <=> Parentless = {})

C5_Witness ==
  /\ pc = "returned"
  /\ Cardinality(files) >= 2
  /\ KidsOf(root.name) # <<>>

\* C6: a Leaf Item is a direct child of at most one assembly, and a row that
\* names a part already named by an earlier row adds an ItemLink to that
\* part's Item, not the Item itself.
C6_LaterReferenceIsAlias ==
  /\ \A item \in Range(parts) :
       Cardinality({a \in files : item \in Range(KidsOf(a))}) <= 1
  /\ pc = "rows"
       => \A i \in DOMAIN children :
            LET pn == raw_data[cur][i]
                earlier == \/ \E j \in 1..(i - 1) : raw_data[cur][j] = pn
                           \/ \E a \in done : pn \in Range(raw_data[a])
            IN  (pn \notin files /\ pn \in DOMAIN parts /\ earlier)
                  => /\ children[i].kind = "ItemLink"
                     /\ target[children[i].n] = parts[pn]

\* C7: a master parts table that lists a PN in two rows makes the build fail
\* with a duplicate-part error.
C7_DuplicatePartFails ==
  (pc # "start" /\ \E i, j \in DOMAIN master : i < j /\ master[i] = master[j])
    => (pc = "failed" /\ error = "DuplicatePartError")

\* C8: flat(n) is n's direct part and alias children in child order, then
\* flat(c) of each direct assembly child c in child order; it holds no
\* assembly node, is empty for an assembly without children, and for
\* TOP = [P1, SUB], SUB = [P2, P1] it is [P1, P2, P1].
RECURSIVE ConcatFlat(_)
ConcatFlat(as) ==
  IF as = <<>> THEN <<>>
  ELSE Flat(tree, item_type, target, Head(as)) \o ConcatFlat(Tail(as))

ExampleA ==
  /\ files = {"TOP", "SUB"}
  /\ Range(master) = {"P1", "P2"}
  /\ raw_data["TOP"] = <<"P1", "SUB">>
  /\ raw_data["SUB"] = <<"P2", "P1">>

C8_FlatIsPartsThenSubFlats ==
  (pc = "returned" /\ qnode # None)
    => /\ qflat = SelectSeq(tree.children[qnode], IsPartNode)
                    \o ConcatFlat(SelectSeq(tree.children[qnode],
                                            LAMBDA c : c.kind = "BOM"))
       /\ \A i \in DOMAIN qflat : IsPartNode(qflat[i])
       /\ tree.children[qnode] = <<>> => qflat = <<>>
       /\ (ExampleA /\ qnode = BOMNode("TOP"))
            => PNSeq(qflat) = <<"P1", "P2", "P1">>

C8_Witness ==
  /\ pc = "returned"
  /\ ExampleA
  /\ qnode = BOMNode("TOP")
  /\ Len(qflat) = 3

\* C9: in every state of a build, x has parent p exactly when x is among
\* p's children, where it appears once, and no node is its own ancestor.
Consistent(t) ==
  \A x \in DOMAIN t.parent :
    /\ t.parent[x] # None => Count(t.children[t.parent[x]], x) = 1
    /\ \A p \in DOMAIN t.children :
         x \in Range(t.children[p]) => t.parent[x] = p

Acyclic(t) ==
  \A x \in DOMAIN t.parent : x \notin Ancestors(t.parent, x)

C9_ConsistentAcyclic == Consistent(tree) /\ Acyclic(tree)

C9_Witness ==
  /\ pc = "failed"
  /\ error = "LoopError"
  /\ \E a \in files : tree.parent[BOMNode(a)] # None

\* C10: in a returned tree the children of every assembly are, in order, what
\* the rows of its table produced: the i-th child is the sub-assembly, Item
\* or ItemLink of the i-th row.
C10_ChildrenMatchRows ==
  pc = "returned"
    => \A a \in files :
         /\ Len(KidsOf(a)) = Len(raw_data[a])
         /\ \A i \in DOMAIN KidsOf(a) :
              i \in DOMAIN raw_data[a]
                => IF raw_data[a][i] \in files
                   THEN KidsOf(a)[i] = BOMNode(raw_data[a][i])
                   ELSE /\ IsPartNode(KidsOf(a)[i])
                        /\ PN(target, KidsOf(a)[i]) = raw_data[a][i]

====
